---- MODULE Spec2Model ----
(***************************************************************************)
(* Model of the Astro generator of mitosis (src/unnamed/part_000):         *)
(* processBinding, collectClassString, analyzeHydrationNeeds, blockToAstro *)
(* and the componentToAstro pipeline.                                      *)
(*                                                                         *)
(* Text is a sequence of tokens.  A token is either a word (a maximal run  *)
(* of \w characters) or a piece of punctuation / literal text that holds   *)
(* no word the regular expressions of the generator look for.  No two word *)
(* tokens are adjacent, so a token boundary next to a word is exactly the  *)
(* regex \b, and \w+ matches exactly one word token.                       *)
(***************************************************************************)
EXTENDS Integers, Sequences, FiniteSets, TLC

VARIABLES
    \* processBinding called on its own (binding specification)
    code, context, passes, aborted,
    \* blockToAstro / collectClassString called on one node (render specification)
    node, roptions, markup, classAttr,
    \* one run of componentToAstro (pipeline specification)
    pc, component, userOptions, json, options, hydrationAnalysis, css,
    frontmatter, template, clientScript, styles, output, stages, facts,
    \* one generator called several times (generator specification)
    generatorOptions, callerMap, runs

bvars == <<code, context, passes, aborted>>
rvars == <<node, roptions, markup, classAttr>>
pvars == <<pc, component, userOptions, json, options, hydrationAnalysis, css,
           frontmatter, template, clientScript, styles, output, stages, facts>>
gvars == <<generatorOptions, callerMap, runs>>
vars == <<bvars, rvars, pvars, gvars>>

----------------------------------------------------------------------------
(* Bounds of the model *)

\* longest binding code, in tokens, handed to processBinding on its own
MaxCodeLen == 5
\* how many times processBinding is re-run on its own output
MaxPasses == 2
\* most bindings on an element handed to blockToAstro on its own
MaxBindings == 2
\* most children of a Fragment, For or Show node handed to blockToAstro on its own
MaxChildren == 2
\* most onMount hooks of a component
MaxHooks == 2
\* most calls of one generator
MaxRuns == 2

----------------------------------------------------------------------------
(* Tokens *)

\* word tokens: each is one maximal run of \w characters
Words == {"state", "props", "foo", "count", "items", "item", "index", "html",
          "cls", "fontSize", "color", "handler", "attrs", "myRef", "onMountRef",
          "0", "red"}

IsWord(t) == t \in Words

\* a text the expression parser rejects
Unparsable == "@"

\* the tokens that are white space only; no other token starts or ends a
\* trimmed text with white space
WhiteTokens == {" ", "  ", "\n", "\n\n", "\n      ", "\n    "}

IsWhite(t) == t \in WhiteTokens

\* String.prototype.trim() leaves nothing: every token is white space
IsBlank(s) == \A i \in 1..Len(s) : IsWhite(s[i])

RECURSIVE TrimLeft(_)
TrimLeft(s) == IF s # <<>> /\ IsWhite(s[1]) THEN TrimLeft(Tail(s)) ELSE s

RECURSIVE TrimRight(_)
TrimRight(s) ==
    IF s # <<>> /\ IsWhite(s[Len(s)]) THEN TrimRight(SubSeq(s, 1, Len(s) - 1)) ELSE s

\* String.prototype.trim()
Trim(s) == TrimRight(TrimLeft(s))

\* no two word tokens are adjacent (the tokens are maximal runs)
WellTokenized(s) == \A i \in 1..(Len(s) - 1) : ~(IsWord(s[i]) /\ IsWord(s[i + 1]))

\* all sequences over S of length at most n
SeqsUpTo(S, n) == UNION {[1..k -> S] : k \in 0..n}

\* lodash kebabCase on the names the model uses
kebabCase(w) ==
    CASE w = "fontSize" -> "font-size"
      [] w = "MyButton" -> "my-button"
      [] w = "onMountPanel" -> "on-mount-panel"
      [] w = "" -> ""
      [] OTHER -> w

----------------------------------------------------------------------------
(* processBinding *)

\* code.replace(/\b<name>\.(\w+)/g, '$1')  or, qualified, '<name>.$1':
\* a leftmost, non-overlapping scan; a match eats name, the dot and one word
RECURSIVE ReplaceRef(_, _, _)
ReplaceRef(s, name, qualified) ==
    IF s = <<>> THEN <<>>
    ELSE IF Len(s) >= 3 /\ s[1] = name /\ s[2] = "." /\ IsWord(s[3])
         THEN (IF qualified THEN <<name, ".", s[3]>> ELSE <<s[3]>>)
              \o ReplaceRef(SubSeq(s, 4, Len(s)), name, qualified)
         ELSE <<s[1]>> \o ReplaceRef(Tail(s), name, qualified)

\* the two replace calls of each context
substituteRefs(c, ctx) ==
    IF ctx = "template"
    THEN ReplaceRef(ReplaceRef(c, "state", FALSE), "props", FALSE)
    ELSE IF ctx = "frontmatter"
    THEN ReplaceRef(ReplaceRef(c, "state", FALSE), "props", TRUE)
    ELSE c

\* the ObjectExpression visitor: in template context a property key (a word
\* right before ":") whose kebab-case differs becomes a string literal key
RECURSIVE ObjectExpression(_, _)
ObjectExpression(s, ctx) ==
    IF ctx # "template" \/ s = <<>> THEN s
    ELSE IF Len(s) >= 2 /\ IsWord(s[1]) /\ s[2] = ":" /\ kebabCase(s[1]) # s[1]
         THEN <<"\"" \o kebabCase(s[1]) \o "\"">> \o ObjectExpression(Tail(s), ctx)
         ELSE <<s[1]>> \o ObjectExpression(Tail(s), ctx)

\* babelTransformExpression(code, visitor): parses, applies the visitor, prints;
\* it throws on text it cannot parse
babelTransformExpression(s, ctx) ==
    IF \E i \in 1..Len(s) : s[i] = Unparsable
    THEN [threw |-> TRUE, value |-> <<>>]
    ELSE [threw |-> FALSE, value |-> ObjectExpression(s, ctx)]

\* the body of the try block
tryRewrite(c, ctx) == babelTransformExpression(substituteRefs(c, ctx), ctx)

\* a processBinding whose catch block returns the text as far as it was rewritten
processBindingOutcomeKeepsPartial(c, ctx) ==
    IF IsBlank(c) THEN [threw |-> FALSE, value |-> <<>>]
    ELSE LET r == tryRewrite(c, ctx)
         IN  IF r.threw THEN [threw |-> FALSE, value |-> substituteRefs(c, ctx)] ELSE r

\* what a call of processBinding ends with: a returned value, or an exception
\* that reaches the caller (threw)
processBindingOutcome(c, ctx) ==
    IF IsBlank(c) THEN [threw |-> FALSE, value |-> <<>>]
    ELSE LET r == tryRewrite(c, ctx)
         IN  IF r.threw THEN [threw |-> FALSE, value |-> c] ELSE r

\* processBinding(code, context, options); options is not read
processBinding(c, ctx) == processBindingOutcome(c, ctx).value

----------------------------------------------------------------------------
(* Nodes, bindings, options *)

\* an optional value: <<>> is undefined, <<v>> is v
Undefined == <<>>
Some(v) == <<v>>

\* a MitosisNode.  properties: sequence of [key, value] in insertion order,
\* value a text; bindings: sequence of Binding records in insertion order,
\* keys unique; meta.else and scope.indexName are optional
Node(name, properties, bindings, children, else, scope) ==
    [name |-> name, properties |-> properties, bindings |-> bindings,
     children |-> children, meta |-> [else |-> else], scope |-> scope]

NoScope == [forName |-> Undefined, indexName |-> Undefined]

\* a Binding: code is a text, arguments is optional
Binding(key, c, type, async, arguments) ==
    [key |-> key, code |-> c, type |-> type, async |-> async, arguments |-> arguments]

\* obj[key] of a properties / bindings object: Undefined or Some(entry)
Lookup(entries, key) ==
    LET I == {i \in DOMAIN entries : entries[i].key = key}
    IN  IF I = {} THEN Undefined ELSE Some(entries[CHOOSE i \in I : TRUE])

\* node.properties[key]?.trim() is truthy
PropNonBlank(n, key) ==
    LET p == Lookup(n.properties, key) IN p # Undefined /\ ~IsBlank(p[1].value)

\* node.bindings[key]?.code?.trim() is truthy
BindingNonBlank(n, key) ==
    LET b == Lookup(n.bindings, key) IN b # Undefined /\ ~IsBlank(b[1].code)

\* node.bindings[key]?.code is truthy (a non-empty string)
BindingHasCode(n, key) ==
    LET b == Lookup(n.bindings, key) IN b # Undefined /\ b[1].code # <<>>

PropValue(n, key) == Lookup(n.properties, key)[1].value
BindingCode(n, key) == Lookup(n.bindings, key)[1].code

\* Array.prototype.join(sep) on a sequence of texts
RECURSIVE Join(_, _)
Join(texts, sep) ==
    IF texts = <<>> THEN <<>>
    ELSE IF Len(texts) = 1 THEN texts[1]
    ELSE texts[1] \o <<sep>> \o Join(Tail(texts), sep)

\* Map.prototype.set on an insertion-ordered map kept as a sequence of
\* [className, cssCode]
MapSet(m, k, v) ==
    IF \E i \in DOMAIN m : m[i].className = k
    THEN [i \in DOMAIN m |-> IF m[i].className = k
                             THEN [className |-> k, cssCode |-> v] ELSE m[i]]
    ELSE Append(m, [className |-> k, cssCode |-> v])

CLIENT_DIRECTIVES ==
    [load |-> "client:load", idle |-> "client:idle", visible |-> "client:visible",
     media |-> "client:media", only |-> "client:only"]

\* the allow-list of events that require hydration (the ones the model's
\* inputs use, out of the 39 of the source)
INTERACTIVE_EVENTS == {"onClick", "onChange", "onInput", "onSubmit", "onFocus", "onBlur"}

\* void elements of constants/html_tags (the ones the model's inputs use)
SELF_CLOSING_HTML_TAGS == {"input", "img", "br", "hr"}

\* checkIsEvent: the key starts with "on" (the keys the model's inputs use)
checkIsEvent(key) == key \in INTERACTIVE_EVENTS \cup {"onCustom"}

\* checkIsForNode
checkIsForNode(n) == n.name = "For"

\* getForArguments: the item name, then the index name when there is one
getForArguments(n) ==
    <<(IF n.scope.forName = Undefined THEN "item" ELSE n.scope.forName[1])>>
    \o n.scope.indexName

\* filterEmptyTextNodes: drop a node whose literal text is a blank string
filterEmptyTextNodes(n) ==
    LET t == Lookup(n.properties, "_text") IN ~(t # Undefined /\ IsBlank(t[1].value))

\* hash-sum of a style-object code: one token per distinct code
hash(c) == "h" \o ToString(Len(c)) \o (IF Len(c) >= 2 THEN c[2] ELSE "")

\* lodash camelCase on a ref name
camelCase(c) == IF c = <<"my-ref">> THEN <<"myRef">> ELSE c

----------------------------------------------------------------------------
(* collectClassString *)

\* `${kebabCase(node.name || 'element')}-${cssHash}`
scopedClassName(n) ==
    kebabCase(IF n.name = "" THEN "element" ELSE n.name) \o "-" \o hash(BindingCode(n, "css"))

\* the entries pushed to `classes`, in the order of the source
classEntries(n) ==
    (IF PropNonBlank(n, "class")
     THEN <<(<<"\"">> \o Trim(PropValue(n, "class")) \o <<"\"">>)>> ELSE <<>>)
    \o (IF PropNonBlank(n, "className")
        THEN <<(<<"\"">> \o Trim(PropValue(n, "className")) \o <<"\"">>)>> ELSE <<>>)
    \o (IF BindingNonBlank(n, "class")
        THEN <<(<<"(">> \o processBinding(BindingCode(n, "class"), "template") \o <<")">>)>>
        ELSE <<>>)
    \o (IF BindingNonBlank(n, "className")
        THEN <<(<<"(">> \o processBinding(BindingCode(n, "className"), "template") \o <<")">>)>>
        ELSE <<>>)
    \o (IF BindingNonBlank(n, "css")
        THEN <<(<<"\"", scopedClassName(n), "\"">>)>> ELSE <<>>)

\* the options after the call: the css code recorded under the scoped class,
\* the accumulator created when absent
recordCss(n, o) ==
    IF BindingNonBlank(n, "css")
    THEN [o EXCEPT !.cssInJs =
            Some(MapSet(IF o.cssInJs = Undefined THEN <<>> ELSE o.cssInJs[1],
                        scopedClassName(n), BindingCode(n, "css")))]
    ELSE o

\* classes[0].startsWith('"') && classes[0].endsWith('"')
IsQuoted(entry) == entry # <<>> /\ entry[1] = "\"" /\ entry[Len(entry)] = "\""

\* a classText that takes the direct form for any single entry
classTextAnySingle(classes) ==
    IF classes = <<>> THEN <<>>
    ELSE IF Len(classes) = 1
         THEN <<"class=">> \o classes[1]
         ELSE <<"class=", "{[">> \o Join(classes, ", ") \o <<"].filter(Boolean).join(' ')}">>

\* the text of the class attribute from the collected entries
classText(classes) ==
    IF classes = <<>> THEN <<>>
    ELSE IF Len(classes) = 1 /\ IsQuoted(classes[1])
         THEN <<"class=">> \o classes[1]
         ELSE <<"class=", "{[">> \o Join(classes, ", ") \o <<"].filter(Boolean).join(' ')}">>

\* collectClassString(node, options): the attribute text it returns; what it
\* does to options is recordCss
collectClassString(n, o) == classText(classEntries(n))

----------------------------------------------------------------------------
(* blockToAstro *)

\* the loop over node.properties: every literal property except
\* class / className / _text as key="value"
RECURSIVE staticAttrs(_)
staticAttrs(properties) ==
    IF properties = <<>> THEN <<>>
    ELSE LET p == properties[1]
         IN  (IF p.key \in {"class", "className", "_text"} THEN <<>>
              ELSE <<" ", p.key, "=\"">> \o p.value \o <<"\"">>)
             \o staticAttrs(Tail(properties))

\* the two `continue` tests at the head of the loop over node.bindings
bindingSkipped(b) ==
    IsBlank(b.code) \/ b.key \in {"class", "className", "css", "_text"}

\* what one turn of the loop over node.bindings appends to elementString
bindingAttr(n, b) ==
    IF bindingSkipped(b) THEN <<>>
    ELSE IF b.type = "spread"
    THEN <<" {...(">> \o processBinding(b.code, "template") \o <<")}">>
    ELSE IF b.key = "ref"
    THEN <<" bind:this={">> \o camelCase(b.code) \o <<"}">>
    ELSE IF checkIsEvent(b.key)
    THEN LET eventName == IF b.key = "onChange" /\ n.name = "input" THEN "onInput" ELSE b.key
             bindingArgs == IF b.arguments = Undefined THEN <<"event">> ELSE b.arguments[1]
         IN  <<" ", eventName, "={">> \o (IF b.async THEN <<"async ">> ELSE <<>>)
             \o <<"(">> \o Join([i \in DOMAIN bindingArgs |-> <<bindingArgs[i]>>], ",")
             \o <<") => ">> \o processBinding(b.code, "template") \o <<"}">>
    ELSE IF b.key = "innerHTML"
    THEN <<" set:html={">> \o processBinding(b.code, "template") \o <<"}">>
    ELSE IF b.key = "style"
    THEN <<" style={">> \o processBinding(b.code, "template") \o <<"}">>
    ELSE <<" ", b.key, "={">> \o processBinding(b.code, "template") \o <<"}">>

\* a loop in which only a ref binding sets needsClientDirective
bindingMarksActivationRefOnly(b) ==
    ~bindingSkipped(b) /\ b.type # "spread" /\ b.key = "ref"

\* one turn of the loop sets needsClientDirective
bindingMarksActivation(b) ==
    /\ ~bindingSkipped(b)
    /\ b.type # "spread"
    /\ \/ b.key = "ref"
       \/ checkIsEvent(b.key) /\ b.key \in INTERACTIVE_EVENTS

RECURSIVE bindingAttrs(_, _)
bindingAttrs(n, bindings) ==
    IF bindings = <<>> THEN <<>>
    ELSE bindingAttr(n, bindings[1]) \o bindingAttrs(n, Tail(bindings))

\* needsClientDirective after the loop
needsClientDirective(n) ==
    \E i \in DOMAIN n.bindings : bindingMarksActivation(n.bindings[i])

\* the activation-strategy marker appended after the loop
directiveAttr(n, o) ==
    IF needsClientDirective(n) /\ o.clientDirective # Some("none")
    THEN <<" ", (IF o.clientDirective = Undefined THEN CLIENT_DIRECTIVES.idle
                 ELSE o.clientDirective[1])>>
    ELSE <<>>

RECURSIVE blockToAstro(_, _)
RECURSIVE renderChildren(_, _)

\* children.filter(filterEmptyTextNodes).map(child => blockToAstro(child, options)):
\* the rendered texts in order
renderChildren(children, o) ==
    IF children = <<>> THEN <<>>
    ELSE IF ~filterEmptyTextNodes(children[1]) THEN renderChildren(Tail(children), o)
    ELSE <<blockToAstro(children[1], o)>> \o renderChildren(Tail(children), o)

\* ... .join('\n') || ''
childrenContent(children, o) == Join(renderChildren(children, o), "\n")

\* a For branch that never passes the index to the callback
forToAstroItemOnly(n, o) ==
    LET forArgs == getForArguments(n)
        each == Lookup(n.bindings, "each")
        eachCode == processBinding(IF each = Undefined THEN <<>> ELSE each[1].code, "template")
    IN  <<"{">> \o eachCode \o <<".map((", forArgs[1]>>
        \o <<") => (", "\n      ">> \o childrenContent(n.children, o) \o <<"\n    ", "))}">>

\* the For branch
forToAstro(n, o) ==
    LET forArgs == getForArguments(n)
        itemName == forArgs[1]
        each == Lookup(n.bindings, "each")
        eachCode == processBinding(IF each = Undefined THEN <<>> ELSE each[1].code, "template")
    IN  <<"{">> \o eachCode \o <<".map((", itemName>>
        \o (IF Len(forArgs) >= 2 THEN <<", ", forArgs[2]>> ELSE <<>>)
        \o <<") => (", "\n      ">> \o childrenContent(n.children, o) \o <<"\n    ", "))}">>

\* a Show branch that renders the else branch without asking whether there is one
showToAstroNoNull(n, o) ==
    LET when == Lookup(n.bindings, "when")
        whenCode == processBinding(IF when = Undefined THEN <<>> ELSE when[1].code, "template")
    IN  <<"{">> \o whenCode \o <<" ? (", "\n      ">> \o childrenContent(n.children, o)
        \o <<"\n    ", ") : (">> \o childrenContent(n.meta.else, o) \o <<")}">>

\* the Show branch
showToAstro(n, o) ==
    LET when == Lookup(n.bindings, "when")
        whenCode == processBinding(IF when = Undefined THEN <<>> ELSE when[1].code, "template")
        elseContent == IF n.meta.else # Undefined
                       THEN blockToAstro(n.meta.else[1], o) ELSE <<"null">>
    IN  <<"{">> \o whenCode \o <<" ? (", "\n      ">> \o childrenContent(n.children, o)
        \o <<"\n    ", ") : (">> \o elseContent \o <<")}">>

\* the opening tag up to and including the activation-strategy marker
openTag(n, o) ==
    LET classAttribute == collectClassString(n, o)
    IN  <<"<", n.name>>
        \o (IF classAttribute # <<>> THEN <<" ">> \o classAttribute ELSE <<>>)
        \o staticAttrs(n.properties)
        \o bindingAttrs(n, n.bindings)
        \o directiveAttr(n, o)

\* a plain-element branch without the early return for self-closing tags
elementToAstroAlwaysClosed(n, o) ==
    openTag(n, o) \o <<">">>
    \o (IF BindingHasCode(n, "innerHTML")
        THEN <<"{">> \o processBinding(BindingCode(n, "innerHTML"), "template") \o <<"}">>
        ELSE IF Len(n.children) > 0 THEN childrenContent(n.children, o)
        ELSE <<>>)
    \o <<"</", n.name, ">">>

\* the plain-element branch
elementToAstro(n, o) ==
    IF n.name \in SELF_CLOSING_HTML_TAGS
    THEN openTag(n, o) \o <<" />">>
    ELSE openTag(n, o) \o <<">">>
         \o (IF BindingHasCode(n, "innerHTML")
             THEN <<"{">> \o processBinding(BindingCode(n, "innerHTML"), "template") \o <<"}">>
             ELSE IF Len(n.children) > 0 THEN childrenContent(n.children, o)
             ELSE <<>>)
         \o <<"</", n.name, ">">>

\* node.properties._text is truthy
hasLiteralText(n) ==
    Lookup(n.properties, "_text") # Undefined /\ PropValue(n, "_text") # <<>>

\* a dispatch that looks at the name of the node before it looks for text
blockToAstroNameFirst(n, o) ==
    IF n.name = "Fragment" THEN childrenContent(n.children, o)
    ELSE IF checkIsForNode(n) THEN forToAstro(n, o)
    ELSE IF n.name = "Show" THEN showToAstro(n, o)
    ELSE IF hasLiteralText(n) THEN PropValue(n, "_text")
    ELSE IF BindingHasCode(n, "_text")
    THEN <<"{">> \o processBinding(BindingCode(n, "_text"), "template") \o <<"}">>
    ELSE elementToAstro(n, o)

\* blockToAstro(node, options): the text it returns.  The text reads of
\* options only clientDirective, which no call changes
blockToAstro(n, o) ==
    IF hasLiteralText(n) THEN PropValue(n, "_text")
    ELSE IF BindingHasCode(n, "_text")
    THEN <<"{">> \o processBinding(BindingCode(n, "_text"), "template") \o <<"}">>
    ELSE IF n.name = "Fragment" THEN childrenContent(n.children, o)
    ELSE IF checkIsForNode(n) THEN forToAstro(n, o)
    ELSE IF n.name = "Show" THEN showToAstro(n, o)
    ELSE elementToAstro(n, o)

RECURSIVE optionsAfter(_, _)
RECURSIVE optionsAfterChildren(_, _)

\* options as the calls of blockToAstro on the non-empty-text children leave it
optionsAfterChildren(children, o) ==
    IF children = <<>> THEN o
    ELSE IF ~filterEmptyTextNodes(children[1]) THEN optionsAfterChildren(Tail(children), o)
    ELSE optionsAfterChildren(Tail(children), optionsAfter(children[1], o))

\* options as blockToAstro(node, options) leaves it: the calls of
\* collectClassString it makes, in the order it makes them
optionsAfter(n, o) ==
    IF hasLiteralText(n) \/ BindingHasCode(n, "_text") THEN o
    ELSE IF n.name = "Fragment" \/ checkIsForNode(n) THEN optionsAfterChildren(n.children, o)
    ELSE IF n.name = "Show"
    THEN IF n.meta.else # Undefined
         THEN optionsAfter(n.meta.else[1], optionsAfterChildren(n.children, o))
         ELSE optionsAfterChildren(n.children, o)
    ELSE IF n.name \in SELF_CLOSING_HTML_TAGS \/ BindingHasCode(n, "innerHTML")
    THEN recordCss(n, o)
    ELSE optionsAfterChildren(n.children, recordCss(n, o))

----------------------------------------------------------------------------
(* analyzeHydrationNeeds *)

\* getRefs: the codes of the ref bindings of every node of the tree, each
\* once, in the order the tree is walked
RECURSIVE collectRefs(_, _)
collectRefs(nodes, acc) ==
    IF nodes = <<>> THEN acc
    ELSE LET n == nodes[1]
             b == Lookup(n.bindings, "ref")
             own == IF b # Undefined /\ \A i \in DOMAIN acc : acc[i] # b[1].code
                    THEN Append(acc, b[1].code) ELSE acc
             below == collectRefs(n.meta.else, collectRefs(n.children, own))
         IN  collectRefs(Tail(nodes), below)

getRefs(j) == collectRefs(j.children, <<>>)

\* a walk that takes every event handler for an interactive one
firstInteractiveKeyAnyEvent(n) ==
    LET I == {i \in DOMAIN n.bindings : checkIsEvent(n.bindings[i].key)}
    IN  IF I = {} THEN Undefined
        ELSE Some(n.bindings[CHOOSE i \in I : \A k \in I : i <= k].key)

\* the first key of node.bindings, in iteration order, that is in the allow-list
firstInteractiveKey(n) ==
    LET I == {i \in DOMAIN n.bindings : n.bindings[i].key \in INTERACTIVE_EVENTS}
    IN  IF I = {} THEN Undefined
        ELSE Some(n.bindings[CHOOSE i \in I : \A k \in I : i <= k].key)

\* checkNodeForInteractivity over a list of nodes: the reasons pushed, in order;
\* a node with a hit is not descended into
RECURSIVE checkNodeForInteractivity(_)
checkNodeForInteractivity(nodes) ==
    IF nodes = <<>> THEN <<>>
    ELSE LET n == nodes[1]
             hit == firstInteractiveKey(n)
         IN  (IF hit # Undefined
              THEN << <<"Found interactive event: ", hit[1], " on ", n.name>> >>
              ELSE checkNodeForInteractivity(n.children))
             \o checkNodeForInteractivity(Tail(nodes))

\* the tokens of the model that hold the text "onMount"
OnMountTokens == {" onMount hook(s)", "onMountRef", "onMountPanel"}

\* r.includes('onMount')
includesOnMount(r) == \E i \in DOMAIN r : r[i] \in OnMountTokens

\* a choice in which the downgrade for events is applied last
suggestDirectiveEventsLast(hasInteractiveEvents, refs, reasons) ==
    IF hasInteractiveEvents /\ Len(refs) = 0
    THEN CLIENT_DIRECTIVES.idle
    ELSE CLIENT_DIRECTIVES.load

\* the directive chosen at the end of analyzeHydrationNeeds
suggestDirective(hasInteractiveEvents, refs, reasons) ==
    IF \E i \in DOMAIN reasons : includesOnMount(reasons[i])
    THEN CLIENT_DIRECTIVES.load
    ELSE IF hasInteractiveEvents /\ Len(refs) = 0
    THEN CLIENT_DIRECTIVES.idle
    ELSE CLIENT_DIRECTIVES.load

\* if (json.hooks.onUpdate?.length > 0)
onUpdateNonEmpty(j) == j.hooks.onUpdate # Undefined /\ j.hooks.onUpdate[1] # <<>>

\* json.hooks.onUpdate is truthy: declared, even as an empty list
onUpdateDeclared(j) == j.hooks.onUpdate # Undefined

analyzeHydrationNeeds(j) ==
    LET refs == getRefs(j)
        refReasons ==
            IF Len(refs) > 0
            THEN << <<"Component uses ", ToString(Len(refs)), " ref(s): ">>
                    \o Join(refs, ", ") >>
            ELSE <<>>
        mountReasons ==
            IF Len(j.hooks.onMount) > 0
            THEN << <<"Component has ", ToString(Len(j.hooks.onMount)), " onMount hook(s)">> >>
            ELSE <<>>
        updateReasons ==
            IF onUpdateDeclared(j)
            THEN << <<"Component has ", ToString(Len(j.hooks.onUpdate[1])), " onUpdate hook(s)">> >>
            ELSE <<>>
        eventReasons == checkNodeForInteractivity(j.children)
        hasInteractiveEvents == eventReasons # <<>>
        reasons == refReasons \o mountReasons \o updateReasons \o eventReasons
    IN  [needsHydration |-> \/ Len(refs) > 0
                            \/ Len(j.hooks.onMount) > 0
                            \/ onUpdateDeclared(j)
                            \/ hasInteractiveEvents,
         reason |-> reasons,
         suggestedDirective |-> suggestDirective(hasInteractiveEvents, refs, reasons)]

----------------------------------------------------------------------------
(* cssObjectToString *)

\* cssCode.replace(/^\s*[\(\{]\s*|\s*[\)\}]\s*$/g, ''): one opening bracket
\* with the white space around it off the front, one closing bracket off the end
stripBrackets(c) ==
    LET l == TrimLeft(c)
        front == IF l # <<>> /\ l[1] \in {"{", "("} THEN TrimLeft(Tail(l)) ELSE c
        r == TrimRight(front)
    IN  IF r # <<>> /\ r[Len(r)] \in {"}", ")"}
        THEN TrimRight(SubSeq(r, 1, Len(r) - 1)) ELSE front

\* the literals `new Function` can evaluate without a binding in scope
CssLiterals == {"0", "\"red\"", "\"12px\""}

\* the text of a value as the template literal prints it
cssValueText(v) ==
    CASE v = "\"red\"" -> "red"
      [] v = "\"12px\"" -> "12px"
      [] OTHER -> v

\* new Function(`return {${cleaned}}`)() on `key: value, key: value`: the
\* entries, or a failure (a syntax error, or a value naming an unbound variable)
RECURSIVE evalObject(_)
evalObject(c) ==
    IF c = <<>> THEN [threw |-> FALSE, entries |-> <<>>]
    ELSE IF Len(c) >= 3 /\ IsWord(c[1]) /\ c[2] = ":" /\ c[3] \in CssLiterals
    THEN IF Len(c) = 3
         THEN [threw |-> FALSE, entries |-> <<[property |-> c[1], value |-> c[3]]>>]
         ELSE IF c[4] = ","
         THEN LET rest == evalObject(SubSeq(c, 5, Len(c)))
              IN  [threw |-> rest.threw,
                   entries |-> <<[property |-> c[1], value |-> c[3]]>> \o rest.entries]
         ELSE [threw |-> TRUE, entries |-> <<>>]
    ELSE [threw |-> TRUE, entries |-> <<>>]

RECURSIVE cssLines(_)
cssLines(entries) ==
    IF entries = <<>> THEN <<>>
    ELSE <<"  ", kebabCase(entries[1].property), ": ", cssValueText(entries[1].value), ";", "\n">>
         \o cssLines(Tail(entries))

\* a cssObjectToString whose catch block returns nothing
cssObjectToStringSilent(cssCode) ==
    LET cssObj == evalObject(stripBrackets(cssCode))
    IN  IF cssObj.threw THEN <<>> ELSE cssLines(cssObj.entries)

cssObjectToString(cssCode) ==
    LET cssObj == evalObject(stripBrackets(cssCode))
    IN  IF cssObj.threw
        THEN <<"  ", "/* Generated from: ">> \o cssCode \o <<" */", "\n">>
        ELSE cssLines(cssObj.entries)

----------------------------------------------------------------------------
(* Collaborators of componentToAstro *)

\* fastClone: a deep copy, equal in value to its argument and sharing nothing
fastClone(c) == c

\* the option `key: value` of the defaults object is overridden by userOptions
\* when userOptions gives the key
Merged(given, default) == IF given # Undefined THEN given ELSE Some(default)

\* initializeOptions with the defaults object of componentToAstro:
\* {typescript: true, clientDirective: idle, cssInJs: new Map(), ...userOptions}
initializeOptions(u) ==
    [typescript |-> Merged(u.typescript, TRUE)[1],
     clientDirective |-> Merged(u.clientDirective, CLIENT_DIRECTIVES.idle),
     cssInJs |-> Merged(u.cssInJs, <<>>),
     prettier |-> u.prettier,
     plugins |-> u.plugins]

\* if (options.plugins)
pluginsConfigured(o) == o.plugins # Undefined

\* if (options.prettier)
formattingWhenTruthy(o) == o.prettier = Some(TRUE)

\* if (options.prettier !== false)
formattingEnabled(o) == o.prettier # Some(FALSE)

\* the plugins of the model: "mount" adds an onMount hook before analysis,
\* "banner" puts a comment in front of the code before formatting, "footer"
\* one behind it after formatting
RECURSIVE runPreJsonPlugins(_, _)
runPreJsonPlugins(j, plugins) ==
    IF plugins = <<>> THEN j
    ELSE runPreJsonPlugins(
            IF plugins[1] = "mount"
            THEN [j EXCEPT !.hooks.onMount = Append(@, [code |-> <<"handler", "()">>])]
            ELSE j,
            Tail(plugins))

runPostJsonPlugins(j, plugins) == j

RECURSIVE runPreCodePlugins(_, _)
runPreCodePlugins(text, plugins) ==
    IF plugins = <<>> THEN text
    ELSE runPreCodePlugins(
            IF plugins[1] = "banner" THEN <<"<!-- banner -->", "\n">> \o text ELSE text,
            Tail(plugins))

RECURSIVE runPostCodePlugins(_, _)
runPostCodePlugins(text, plugins) ==
    IF plugins = <<>> THEN text
    ELSE runPostCodePlugins(
            IF plugins[1] = "footer" THEN text \o <<"\n", "<!-- footer -->">> ELSE text,
            Tail(plugins))

\* stripMetaProperties: removes the meta annotations of every node of the tree
RECURSIVE stripNodes(_)
stripNodes(nodes) ==
    IF nodes = <<>> THEN <<>>
    ELSE <<[nodes[1] EXCEPT !.children = stripNodes(@), !.meta = [else |-> Undefined]]>>
         \o stripNodes(Tail(nodes))

stripMetaProperties(j) == [j EXCEPT !.children = stripNodes(@)]

\* what the call of stripMetaProperties can leave in json.  The helper removes
\* internal annotations; blockToAstro, which only runs after it, reads
\* node.meta.else, so whether the else branch of a Show node is among the
\* annotations removed is not fixed here: json with every meta removed, or
\* json with the else branches still in place
stripOutcomes(j) == {stripMetaProperties(j), j}

\* collectCss: the non-inline css rules of the component
collectCss(j) == j.style

\* renderPreComponent: the import statements of the component
renderPreComponent(j) == j.imports

\* some code of a list of nodes names the props container
RECURSIVE nodesUseProps(_)
nodesUseProps(nodes) ==
    \E i \in DOMAIN nodes :
        \/ \E k \in DOMAIN nodes[i].bindings :
              \E t \in DOMAIN nodes[i].bindings[k].code :
                 nodes[i].bindings[k].code[t] = "props"
        \/ nodesUseProps(nodes[i].children)
        \/ nodesUseProps(nodes[i].meta.else)

\* hasProps: the component declares props or its code uses the props container
hasProps(j) ==
    \/ j.props # <<>>
    \/ nodesUseProps(j.children)
    \/ \E i \in DOMAIN j.state : \E t \in DOMAIN j.state[i].code : j.state[i].code[t] = "props"

----------------------------------------------------------------------------
(* The sections componentToAstro builds *)

\* fields that are all marked optional
RECURSIVE propFieldsAllOptional(_)
propFieldsAllOptional(props) ==
    IF props = <<>> THEN <<>>
    ELSE LET p == props[1]
             propType == IF p.propertyType = Undefined THEN "any" ELSE p.propertyType[1]
         IN  <<"  ", p.key, "?", ": ", propType, ";", "\n">> \o propFieldsAllOptional(Tail(props))

\* the fields of the prop-type declaration
RECURSIVE propFields(_)
propFields(props) ==
    IF props = <<>> THEN <<>>
    ELSE LET p == props[1]
             propType == IF p.propertyType = Undefined THEN "any" ELSE p.propertyType[1]
             optional == IF p.optional # Some(FALSE) THEN <<"?">> ELSE <<>>
         IN  <<"  ", p.key>> \o optional \o <<": ", propType, ";", "\n">>
             \o propFields(Tail(props))

\* the props part of the frontmatter
propsSection(j, o, componentHasProps) ==
    LET propsType == IF j.propsTypeRef = Undefined THEN "Props" ELSE j.propsTypeRef[1]
    IN  IF o.typescript /\ componentHasProps
        THEN <<"interface ", propsType, " {", "\n">>
             \o (IF j.props # <<>> THEN propFields(j.props)
                 ELSE <<"  ", "[key: string]: any;", "\n">>)
             \o <<"}", "\n\n", "const props = Astro.props as ", propsType, ";", "\n">>
        ELSE IF componentHasProps
        THEN <<"const props = Astro.props;", "\n">>
        ELSE <<>>

\* code.includes('function') || code.includes('=>') || /^\s*\([^)]*\)\s*=>/.test(code)
looksLikeFunction(c) ==
    \E i \in DOMAIN c : c[i] \in {"function", " => ", ") => ", "() => "}

RECURSIVE stateDeclarations(_)
stateDeclarations(state) ==
    IF state = <<>> THEN <<>>
    ELSE LET item == state[1]
         IN  (IF item.code = <<>> THEN <<>>
              ELSE <<(IF looksLikeFunction(item.code) THEN "const " ELSE "let "),
                     item.key, " = ">>
                   \o processBinding(item.code, "frontmatter") \o <<";", "\n">>)
             \o stateDeclarations(Tail(state))

RECURSIVE refDeclarations(_)
refDeclarations(refs) ==
    IF refs = <<>> THEN <<>>
    ELSE <<"let ">> \o camelCase(refs[1]) \o <<";", "\n">> \o refDeclarations(Tail(refs))

\* the frontmatter text, lines 417-487
buildFrontmatter(j, o, known) ==
    LET imports == renderPreComponent(j)
    IN  (IF ~IsBlank(imports) THEN imports \o <<"\n\n">> ELSE <<>>)
        \o propsSection(j, o, known.componentHasProps)
        \o (IF known.hasState
            THEN <<"\n", "// Component state", "\n">> \o stateDeclarations(j.state)
            ELSE <<>>)
        \o (IF Len(known.refs) > 0
            THEN <<"\n", "// Component refs", "\n">> \o refDeclarations(known.refs)
            ELSE <<>>)
        \o (IF j.hooks.onInit # Undefined /\ j.hooks.onInit[1].code # <<>>
            THEN <<"\n", "// Component initialization", "\n">>
                 \o processBinding(j.hooks.onInit[1].code, "frontmatter") \o <<"\n">>
            ELSE <<>>)

RECURSIVE hookLines(_)
hookLines(hooks) ==
    IF hooks = <<>> THEN <<>>
    ELSE <<"  ">> \o processBinding(hooks[1].code, "template") \o <<";", "\n">>
         \o hookLines(Tail(hooks))

\* the client script, lines 495-515
buildClientScript(j, analysis) ==
    IF analysis.needsHydration
    THEN <<"\n", "<script>", "\n">>
         \o (IF Len(j.hooks.onMount) > 0
             THEN <<"  ", "// Mount hooks", "\n">> \o hookLines(j.hooks.onMount) ELSE <<>>)
         \o (IF j.hooks.onUpdate # Undefined
             THEN <<"  ", "// Update hooks", "\n">> \o hookLines(j.hooks.onUpdate[1]) ELSE <<>>)
         \o <<"</script>">>
    ELSE <<>>

\* options.cssInJs.forEach(...): one rule block per accumulated scoped class
RECURSIVE cssInJsRules(_)
cssInJsRules(m) ==
    IF m = <<>> THEN <<>>
    ELSE LET cssString == cssObjectToString(m[1].cssCode)
         IN  (IF ~IsBlank(cssString)
              THEN <<".", m[1].className, " {", "\n">> \o cssString \o <<"}", "\n\n">>
              ELSE <<>>)
             \o cssInJsRules(Tail(m))

\* the style block, lines 517-535
buildStyles(cssText, o) ==
    LET collected == (IF ~IsBlank(cssText) THEN cssText ELSE <<>>)
                     \o (IF o.cssInJs # Undefined THEN cssInJsRules(o.cssInJs[1]) ELSE <<>>)
    IN  IF ~IsBlank(collected)
        THEN <<"\n", "<style>", "\n">> \o Trim(collected) \o <<"\n", "</style>">>
        ELSE <<>>

\* the assembled output, lines 537-546
assemble(front, tmpl, script, styleBlock) ==
    (IF ~IsBlank(front) THEN <<"---", "\n">> \o Trim(front) \o <<"\n", "---", "\n\n">> ELSE <<>>)
    \o tmpl \o script \o styleBlock

\* the tokens that end with ">" and the tokens that start with "<"
EndsWithGt(t) ==
    t \in {">", " />", "<script>", "</script>", "<style>", "</style>",
           "<!-- banner -->", "<!-- footer -->"}
StartsWithLt(t) ==
    t \in {"<", "</", "<script>", "</script>", "<style>", "</style>",
           "<!-- banner -->", "<!-- footer -->"}

\* output.replace(/>\s*</g, '>\n<'): the white space between a ">" and the next
\* "<" becomes one line break
RECURSIVE formatOutput(_)
formatOutput(text) ==
    IF text = <<>> THEN <<>>
    ELSE IF EndsWithGt(text[1])
    THEN LET rest == TrimLeft(Tail(text))
         IN  IF rest # <<>> /\ StartsWithLt(rest[1])
             THEN <<text[1], "\n">> \o formatOutput(rest)
             ELSE <<text[1]>> \o formatOutput(Tail(text))
    ELSE <<text[1]>> \o formatOutput(Tail(text))

----------------------------------------------------------------------------
(* Inputs *)

\* the tokens binding code is drawn from when processBinding is called on its own
CodeAlphabet == {"state", "props", ".", "foo", " ", Unparsable}

BindingCodes == {c \in SeqsUpTo(CodeAlphabet, MaxCodeLen) : WellTokenized(c)}

Contexts == {"frontmatter", "template"}

TextNode(t) == Node("div", <<[key |-> "_text", value |-> t]>>, <<>>, <<>>, Undefined, NoScope)
Element(name, properties, bindings, children) ==
    Node(name, properties, bindings, children, Undefined, NoScope)
Single(key, c) == Binding(key, c, "single", FALSE, Undefined)

TextYes == TextNode(<<"yes">>)
TextNo == TextNode(<<"no">>)
TextBlank == TextNode(<<" ">>)
ItemText == Element("div", <<>>, <<Single("_text", <<"item">>)>>, <<>>)
Li == Element("li", <<>>, <<>>, <<ItemText>>)
ClickButton == Element("button", <<>>, <<Single("onClick", <<"state", ".", "handler">>)>>, <<TextYes>>)

\* the bindings an element is given
BindingPool ==
    {Single("onClick", <<"state", ".", "handler">>),
     Single("onClick", <<" ">>),
     Binding("onClick", <<"attrs">>, "spread", FALSE, Undefined),
     Binding("onChange", <<"handler">>, "single", TRUE, Some(<<"e", "x">>)),
     Single("onCustom", <<"handler">>),
     Single("ref", <<"my-ref">>),
     Single("innerHTML", <<"props", ".", "html">>),
     Single("style", <<"{", "fontSize", ":", "0", "}">>),
     Single("title", <<"state", ".", "foo", " ", Unparsable>>),
     Binding("attrs", <<"props", ".", "attrs">>, "spread", FALSE, Undefined)}

\* a bindings object: keys are unique
BindingLists ==
    {bs \in SeqsUpTo(BindingPool, MaxBindings) :
        \A i, k \in DOMAIN bs : i # k => bs[i].key # bs[k].key}

ElementNames == {"div", "input", "img", "MyButton"}

AttrNodes ==
    {Element(name, <<[key |-> "id", value |-> <<"x">>]>>, bs, kids) :
        name \in ElementNames, bs \in BindingLists,
        kids \in {<<>>, <<TextYes>>, <<TextBlank, Li>>}}

\* the class sources of a node
ClassProperties ==
    {cl \o cn :
        cl \in {<<>>} \cup {<<[key |-> "class", value |-> v]>> : v \in {<<"a">>, <<" ">>, <<" ", "a", " ">>}},
        cn \in {<<>>, <<[key |-> "className", value |-> <<"b">>]>>}}

ClassBindings ==
    {cl \o cn \o cs :
        cl \in {<<>>, <<Single("class", <<"state", ".", "cls">>)>>, <<Single("class", <<" ">>)>>},
        cn \in {<<>>, <<Single("className", <<"props", ".", "cls">>)>>},
        cs \in {<<>>, <<Single("css", <<"{", "fontSize", ":", "0", "}">>)>>}}

ClassNodes ==
    {Element(name, ps, bs, <<>>) :
        name \in {"div", "MyButton"}, ps \in ClassProperties, bs \in ClassBindings}

\* the children of a Fragment, For or Show node
ChildLists == SeqsUpTo({TextYes, TextBlank, Li, ClickButton}, MaxChildren)

WhenCodes ==
    {<<"count", " > ", "0">>, <<"state", ".", "count", " > ", "0">>,
     <<"props", ".", "foo", " ", Unparsable>>}

EachCodes == {<<"items">>, <<"state", ".", "items">>}

ShowNodes ==
    {Node("Show", <<>>, <<Single("when", w)>>, kids, else, NoScope) :
        w \in WhenCodes, kids \in ChildLists,
        else \in {Undefined, Some(TextNo), Some(ClickButton)}}

ForNodes ==
    {Node("For", <<>>, <<Single("each", e)>>, kids, Undefined,
          [forName |-> Some("item"), indexName |-> ix]) :
        e \in EachCodes, kids \in ChildLists, ix \in {Undefined, Some("index")}}

FragmentNodes == {Element("Fragment", <<>>, <<>>, kids) : kids \in ChildLists}

\* nodes of every name that carry literal text, a text binding (with code, with
\* the empty string as code, with blank code), both or neither, next to other
\* bindings and children
TextShapeNodes ==
    {Node(name, tp, tb \o <<Single("each", <<"items">>), Single("when", <<"count">>),
                            Single("onClick", <<"state", ".", "handler">>)>>,
          kids, Undefined, [forName |-> Some("item"), indexName |-> Undefined]) :
        name \in {"div", "input", "Fragment", "For", "Show"},
        tp \in {<<>>} \cup {<<[key |-> "_text", value |-> v]>> : v \in {<<>>, <<"yes">>, <<" ">>}},
        tb \in {<<>>} \cup {<<Single("_text", c)>> : c \in {<<>>, <<" ">>, <<"state", ".", "foo">>}},
        kids \in {<<>>, <<TextNo>>, <<Li>>}}

\* elements with an innerHTML binding (with code, with blank code, with the
\* empty string as code, of type spread) or without one, with and without children
InnerHtmlNodes ==
    {Element(name, <<>>, ih \o <<Single("title", <<"state", ".", "foo">>)>>, kids) :
        name \in {"div", "MyButton", "img"},
        ih \in {<<>>,
                <<Single("innerHTML", <<"props", ".", "html">>)>>,
                <<Single("innerHTML", <<" ">>)>>,
                <<Single("innerHTML", <<>>)>>,
                <<Binding("innerHTML", <<"props", ".", "html">>, "spread", FALSE, Undefined)>>},
        kids \in {<<>>, <<TextYes>>, <<TextBlank>>, <<Li, ClickButton>>}}

\* an options object handed to blockToAstro
Options(typescript, clientDirective, cssInJs) ==
    [typescript |-> typescript, clientDirective |-> clientDirective, cssInJs |-> cssInJs,
     prettier |-> Undefined, plugins |-> Undefined]

DirectiveOptions ==
    {Options(ts, cd, Some(<<>>)) :
        ts \in BOOLEAN,
        cd \in {Undefined, Some("client:load"), Some("client:visible"), Some("none")}}

AccumulatorOptions ==
    {Options(TRUE, Some("client:idle"), acc) :
        acc \in {Undefined, Some(<<>>),
                 Some(<<[className |-> "div-h5fontSize", cssCode |-> <<"{", "}">>]>>)}}

RenderInputs ==
    ((AttrNodes \cup ShowNodes \cup ForNodes \cup FragmentNodes \cup TextShapeNodes
        \cup InnerHtmlNodes
        \cup {TextYes, ItemText})
        \X DirectiveOptions)
    \cup (ClassNodes \X AccumulatorOptions)


\* the root forests of the components
RefInput == Element("input", <<>>, <<Single("ref", <<"my-ref">>)>>, <<>>)
RootForests ==
    {<<>>,
     <<TextYes>>,
     <<Element("div", <<[key |-> "class", value |-> <<"a">>]>>, <<>>, <<TextYes>>)>>,
     <<ClickButton>>,
     <<Element("div", <<>>, <<Single("title", <<"props", ".", "foo">>)>>, <<TextYes, ClickButton>>)>>,
     <<RefInput>>,
     <<ClickButton, RefInput>>,
     <<Element("div", <<>>, <<Single("onCustom", <<"handler">>)>>, <<>>)>>,
     <<Element("onMountPanel", <<>>, <<Single("onFocus", <<"handler">>)>>, <<>>)>>,
     <<Element("div", <<>>, <<Single("ref", <<"onMountRef">>)>>, <<ClickButton>>)>>,
     <<Node("Show", <<>>, <<Single("when", <<"state", ".", "count", " > ", "0">>)>>,
            <<TextYes>>, Some(ClickButton), NoScope)>>,
     <<Node("For", <<>>, <<Single("each", <<"state", ".", "items">>)>>, <<Li>>, Undefined,
            [forName |-> Some("item"), indexName |-> Undefined])>>,
     <<Element("div", <<>>, <<Single("css", <<"{", "fontSize", ":", "0", "}">>)>>, <<>>),
       Element("MyButton", <<>>, <<Single("css", <<"{", "color", ":", "red", "}">>)>>, <<>>)>>,
     <<Element("div", <<>>, <<Single("css", <<"{", "fontSize", ":", "0", "}">>)>>,
               <<Element("div", <<>>, <<Single("css", <<"{", "fontSize", ":", "0", "}">>)>>, <<>>)>>),
       Element("input", <<>>, <<Single("css", <<"{", "color", ":", "\"red\"", "}">>)>>, <<>>)>>,
     <<Element("div", <<>>, <<Single("css", <<"{", "}">>)>>, <<TextYes>>)>>}

Hook == [code |-> <<"state", ".", "handler", "()">>]

\* the declared props and state of the components
Declarations ==
    {[props |-> <<>>, state |-> <<>>, propsTypeRef |-> Undefined],
     [props |-> <<[key |-> "foo", propertyType |-> Some("string"), optional |-> Undefined],
                  [key |-> "bar", propertyType |-> Undefined, optional |-> Some(FALSE)]>>,
      state |-> <<[key |-> "count", code |-> <<"0">>],
                  [key |-> "handler", code |-> <<"() => ", "props", ".", "foo">>]>>,
      propsTypeRef |-> Some("ButtonProps")]}

Components ==
    {[props |-> d.props, state |-> d.state, propsTypeRef |-> d.propsTypeRef,
      hooks |-> [onInit |-> IF d.state = <<>> THEN Undefined
                            ELSE Some([code |-> <<"state", ".", "count">>]),
                 onMount |-> [i \in 1..m |-> Hook],
                 onUpdate |-> u],
      children |-> f,
      imports |-> IF d.props = <<>> THEN <<>> ELSE <<"import Foo from './foo';">>,
      style |-> IF d.props = <<>> THEN <<>> ELSE <<".foo { color: red; }">>] :
        d \in Declarations, m \in 0..MaxHooks,
        u \in {Undefined, Some(<<>>), Some(<<Hook>>)}, f \in RootForests}

\* the options the caller passes to componentToAstro
UserOptions ==
    {[typescript |-> ts, clientDirective |-> cd, cssInJs |-> Undefined,
      prettier |-> pr, plugins |-> pl] :
        ts \in {Undefined, Some(FALSE)},
        cd \in {Undefined, Some("none")},
        pr \in {Undefined, Some(TRUE), Some(FALSE)},
        pl \in {Undefined, Some(<<>>), Some(<<"mount", "banner", "footer">>)}}

----------------------------------------------------------------------------
(* processBinding called on its own *)

IdleRender ==
    node = Undefined /\ roptions = Undefined /\ markup = Undefined /\ classAttr = Undefined

IdlePipeline ==
    /\ pc = "idle" /\ component = Undefined /\ userOptions = Undefined
    /\ json = Undefined /\ options = Undefined /\ hydrationAnalysis = Undefined
    /\ facts = Undefined /\ css = <<>> /\ frontmatter = <<>> /\ template = <<>>
    /\ clientScript = <<>> /\ styles = <<>> /\ output = <<>> /\ stages = <<>>

IdleBinding == code = <<>> /\ context = "template" /\ passes = <<>> /\ aborted = FALSE

IdleGenerator == generatorOptions = Undefined /\ callerMap = Undefined /\ runs = <<>>

InitBinding ==
    /\ code \in BindingCodes
    /\ context \in Contexts
    /\ passes = <<>>
    /\ aborted = FALSE
    /\ IdleRender /\ IdlePipeline /\ IdleGenerator

\* the text the next call is given: the code, then the result of the last call
passInput(i) == IF i = 1 THEN code ELSE passes[i - 1]

\* one call of processBinding, on the result of the call before it
ProcessBinding ==
    /\ Len(passes) < MaxPasses
    /\ ~aborted
    /\ LET r == processBindingOutcome(passInput(Len(passes) + 1), context)
       IN  /\ aborted' = r.threw
           /\ passes' = IF r.threw THEN passes ELSE Append(passes, r.value)
    /\ UNCHANGED <<code, context, rvars, pvars, gvars>>

NextBinding == ProcessBinding

SpecBinding == InitBinding /\ [][NextBinding]_vars

----------------------------------------------------------------------------
(* blockToAstro and collectClassString called on one node *)

InitRender ==
    /\ \E input \in RenderInputs : node = input[1] /\ roptions = input[2]
    /\ markup = Undefined
    /\ classAttr = Undefined
    /\ IdleBinding /\ IdlePipeline /\ IdleGenerator

\* markup = blockToAstro(node, options)
Render ==
    /\ markup = Undefined
    /\ markup' = Some(blockToAstro(node, roptions))
    /\ roptions' = optionsAfter(node, roptions)
    /\ UNCHANGED <<node, classAttr, bvars, pvars, gvars>>

\* classAttr = collectClassString(node, options)
CollectClass ==
    /\ classAttr = Undefined
    /\ classAttr' = Some(collectClassString(node, roptions))
    /\ roptions' = recordCss(node, roptions)
    /\ UNCHANGED <<node, markup, bvars, pvars, gvars>>

NextRender == Render \/ CollectClass

SpecRender == InitRender /\ [][NextRender]_vars

----------------------------------------------------------------------------
(* One run of componentToAstro: one action per stage, in the order of the    *)
(* source; pc names the stage to run next, stages lists the stages that ran  *)

Init ==
    /\ component \in Components
    /\ userOptions \in UserOptions
    /\ pc = "clone"
    /\ json = Undefined /\ options = Undefined /\ hydrationAnalysis = Undefined
    /\ facts = Undefined /\ css = <<>> /\ frontmatter = <<>> /\ template = <<>>
    /\ clientScript = <<>> /\ styles = <<>> /\ output = <<>> /\ stages = <<>>
    /\ IdleBinding /\ IdleRender /\ IdleGenerator

Ran(stage) == stages' = Append(stages, stage)

\* let json = fastClone(component)
Clone ==
    /\ pc = "clone"
    /\ json' = Some(fastClone(component))
    /\ pc' = "mergeOptions" /\ Ran("clone")
    /\ UNCHANGED <<component, userOptions, options, hydrationAnalysis, facts, css,
                   frontmatter, template, clientScript, styles, output, bvars, rvars, gvars>>

\* const options = initializeOptions(...)
MergeOptions ==
    /\ pc = "mergeOptions"
    /\ options' = Some(initializeOptions(userOptions))
    /\ pc' = "preJson" /\ Ran("mergeOptions")
    /\ UNCHANGED <<component, userOptions, json, hydrationAnalysis, facts, css,
                   frontmatter, template, clientScript, styles, output, bvars, rvars, gvars>>

\* if (options.plugins) json = runPreJsonPlugins(...)
PreJson ==
    /\ pc = "preJson"
    /\ IF pluginsConfigured(options[1])
       THEN json' = Some(runPreJsonPlugins(json[1], options[1].plugins[1])) /\ Ran("preJson")
       ELSE UNCHANGED <<json, stages>>
    /\ pc' = "analyze"
    /\ UNCHANGED <<component, userOptions, options, hydrationAnalysis, facts, css,
                   frontmatter, template, clientScript, styles, output, bvars, rvars, gvars>>

\* hydrationAnalysis, hasState, componentHasProps, refs
Analyze ==
    /\ pc = "analyze"
    /\ hydrationAnalysis' = Some(analyzeHydrationNeeds(json[1]))
    /\ facts' = Some([hasState |-> json[1].state # <<>>,
                      componentHasProps |-> hasProps(json[1]),
                      refs |-> getRefs(json[1])])
    /\ pc' = "collectCss" /\ Ran("analyze")
    /\ UNCHANGED <<component, userOptions, json, options, css,
                   frontmatter, template, clientScript, styles, output, bvars, rvars, gvars>>

\* const css = collectCss(json, {prefix: hash(json)})
CollectCss ==
    /\ pc = "collectCss"
    /\ css' = collectCss(json[1])
    /\ pc' = "postJson" /\ Ran("collectCss")
    /\ UNCHANGED <<component, userOptions, json, options, hydrationAnalysis, facts,
                   frontmatter, template, clientScript, styles, output, bvars, rvars, gvars>>

\* if (options.plugins) json = runPostJsonPlugins(...)
PostJson ==
    /\ pc = "postJson"
    /\ IF pluginsConfigured(options[1])
       THEN json' = Some(runPostJsonPlugins(json[1], options[1].plugins[1])) /\ Ran("postJson")
       ELSE UNCHANGED <<json, stages>>
    /\ pc' = "stripMeta"
    /\ UNCHANGED <<component, userOptions, options, hydrationAnalysis, facts, css,
                   frontmatter, template, clientScript, styles, output, bvars, rvars, gvars>>

\* stripMetaProperties(json)
StripMeta ==
    /\ pc = "stripMeta"
    /\ \E stripped \in stripOutcomes(json[1]) : json' = Some(stripped)
    /\ pc' = "frontmatter" /\ Ran("stripMeta")
    /\ UNCHANGED <<component, userOptions, options, hydrationAnalysis, facts, css,
                   frontmatter, template, clientScript, styles, output, bvars, rvars, gvars>>

\* the frontmatter section
Frontmatter ==
    /\ pc = "frontmatter"
    /\ frontmatter' = buildFrontmatter(json[1], options[1], facts[1])
    /\ pc' = "template" /\ Ran("frontmatter")
    /\ UNCHANGED <<component, userOptions, json, options, hydrationAnalysis, facts, css,
                   template, clientScript, styles, output, bvars, rvars, gvars>>

\* const template = json.children.filter(...).map(blockToAstro).join('\n')
Template ==
    /\ pc = "template"
    /\ template' = childrenContent(json[1].children, options[1])
    /\ options' = Some(optionsAfterChildren(json[1].children, options[1]))
    /\ pc' = "clientScript" /\ Ran("template")
    /\ UNCHANGED <<component, userOptions, json, hydrationAnalysis, facts, css,
                   frontmatter, clientScript, styles, output, bvars, rvars, gvars>>

\* the client script
ClientScript ==
    /\ pc = "clientScript"
    /\ clientScript' = buildClientScript(json[1], hydrationAnalysis[1])
    /\ pc' = "styles" /\ Ran("clientScript")
    /\ UNCHANGED <<component, userOptions, json, options, hydrationAnalysis, facts, css,
                   frontmatter, template, styles, output, bvars, rvars, gvars>>

\* the style block
Styles ==
    /\ pc = "styles"
    /\ styles' = buildStyles(css, options[1])
    /\ pc' = "concat" /\ Ran("styles")
    /\ UNCHANGED <<component, userOptions, json, options, hydrationAnalysis, facts, css,
                   frontmatter, template, clientScript, output, bvars, rvars, gvars>>

\* the assembled output
Concat ==
    /\ pc = "concat"
    /\ output' = assemble(frontmatter, template, clientScript, styles)
    /\ pc' = "preCode" /\ Ran("concat")
    /\ UNCHANGED <<component, userOptions, json, options, hydrationAnalysis, facts, css,
                   frontmatter, template, clientScript, styles, bvars, rvars, gvars>>

\* if (options.plugins) output = runPreCodePlugins(...)
PreCode ==
    /\ pc = "preCode"
    /\ IF pluginsConfigured(options[1])
       THEN output' = runPreCodePlugins(output, options[1].plugins[1]) /\ Ran("preCode")
       ELSE UNCHANGED <<output, stages>>
    /\ pc' = "format"
    /\ UNCHANGED <<component, userOptions, json, options, hydrationAnalysis, facts, css,
                   frontmatter, template, clientScript, styles, bvars, rvars, gvars>>

\* if (options.prettier !== false) output = output.replace(/>\s*</g, '>\n<')
Format ==
    /\ pc = "format"
    /\ IF formattingEnabled(options[1])
       THEN output' = formatOutput(output) /\ Ran("format")
       ELSE UNCHANGED <<output, stages>>
    /\ pc' = "postCode"
    /\ UNCHANGED <<component, userOptions, json, options, hydrationAnalysis, facts, css,
                   frontmatter, template, clientScript, styles, bvars, rvars, gvars>>

\* if (options.plugins) output = runPostCodePlugins(...)
PostCode ==
    /\ pc = "postCode"
    /\ IF pluginsConfigured(options[1])
       THEN output' = runPostCodePlugins(output, options[1].plugins[1]) /\ Ran("postCode")
       ELSE UNCHANGED <<output, stages>>
    /\ pc' = "return"
    /\ UNCHANGED <<component, userOptions, json, options, hydrationAnalysis, facts, css,
                   frontmatter, template, clientScript, styles, bvars, rvars, gvars>>

\* return output
Return ==
    /\ pc = "return"
    /\ pc' = "done" /\ Ran("return")
    /\ UNCHANGED <<component, userOptions, json, options, hydrationAnalysis, facts, css,
                   frontmatter, template, clientScript, styles, output, bvars, rvars, gvars>>

Next ==
    \/ Clone \/ MergeOptions \/ PreJson \/ Analyze \/ CollectCss \/ PostJson
    \/ StripMeta \/ Frontmatter \/ Template \/ ClientScript \/ Styles \/ Concat
    \/ PreCode \/ Format \/ PostCode \/ Return

Spec == Init /\ [][Next]_vars

----------------------------------------------------------------------------
(* One generator, componentToAstro(userOptions), called on several          *)
(* components.  A call runs to its end without a suspension point, so a     *)
(* call is one step.  userOptions is captured by the generator; a Map the   *)
(* caller put in it is one object, callerMap holds its content.             *)

\* the options object as a whole call leaves it: merged, then mutated by the
\* rendering of the root children
optionsAfterCall(c, u) ==
    LET o == initializeOptions(u)
        cloned == fastClone(c)
        pre == IF pluginsConfigured(o) THEN runPreJsonPlugins(cloned, o.plugins[1]) ELSE cloned
        post == IF pluginsConfigured(o) THEN runPostJsonPlugins(pre, o.plugins[1]) ELSE pre
    IN  optionsAfterChildren(stripMetaProperties(post).children, o)

\* the class names of an accumulator
classNamesOf(acc) ==
    IF acc = Undefined THEN {} ELSE {acc[1][i].className : i \in DOMAIN acc[1]}

\* components with and without style-object bindings
CssDiv == Element("div", <<>>, <<Single("css", <<"{", "fontSize", ":", "0", "}">>)>>, <<>>)
CssButton == Element("MyButton", <<>>, <<Single("css", <<"{", "color", ":", "red", "}">>)>>, <<>>)
GeneratorComponents ==
    {[props |-> <<>>, state |-> <<>>, propsTypeRef |-> Undefined,
      hooks |-> [onInit |-> Undefined, onMount |-> <<>>, onUpdate |-> Undefined],
      children |-> f, imports |-> <<>>, style |-> <<>>] :
        f \in {<<TextYes>>, <<CssDiv>>, <<CssButton>>, <<CssDiv, CssButton>>,
               <<Element("div", <<>>, <<>>, <<CssButton>>)>>}}

\* the options a generator is made with: with and without a Map of the caller
GeneratorOptions ==
    {[typescript |-> Undefined, clientDirective |-> cd, cssInJs |-> m,
      prettier |-> Undefined, plugins |-> Undefined] :
        cd \in {Undefined, Some("none")}, m \in {Undefined, Some(<<>>)}}

InitGenerator ==
    /\ generatorOptions \in GeneratorOptions
    /\ callerMap = generatorOptions.cssInJs
    /\ runs = <<>>
    /\ IdleBinding /\ IdleRender /\ IdlePipeline

\* one call of the generator on a component
Compile ==
    /\ Len(runs) < MaxRuns
    /\ \E c \in GeneratorComponents :
          LET o == optionsAfterCall(c, [generatorOptions EXCEPT !.cssInJs = callerMap])
          IN  /\ runs' = Append(runs, [component |-> c,
                                       accumulator |-> o.cssInJs,
                                       styles |-> buildStyles(collectCss(c), o)])
              /\ callerMap' = IF callerMap # Undefined THEN o.cssInJs ELSE callerMap
    /\ UNCHANGED <<generatorOptions, bvars, rvars, pvars>>

NextGenerator == Compile

SpecGenerator == InitGenerator /\ [][NextGenerator]_vars

----------------------------------------------------------------------------
(* Properties *)

\* sub occurs in t as a run of consecutive tokens
ContainsSeq(t, sub) ==
    \E i \in 1..(Len(t) - Len(sub) + 1) : SubSeq(t, i, i + Len(sub) - 1) = sub

IsPrefix(a, b) == Len(a) <= Len(b) /\ SubSeq(b, 1, Len(a)) = a

\* some node of the forest (children, recursively) has a binding named in the
\* interactive allow-list
RECURSIVE interactiveAnywhere(_)
interactiveAnywhere(nodes) ==
    \E i \in DOMAIN nodes :
        \/ \E k \in DOMAIN nodes[i].bindings : nodes[i].bindings[k].key \in INTERACTIVE_EVENTS
        \/ interactiveAnywhere(nodes[i].children)

\* the analysis stage has just run: hydrationAnalysis is the analysis of json
Analyzed == pc = "collectCss"

\* no refs, no onMount hooks, no interactive binding in the children forest
NoRefsMountsEvents ==
    /\ getRefs(json[1]) = <<>>
    /\ json[1].hooks.onMount = <<>>
    /\ ~interactiveAnywhere(json[1].children)

\* C1 as stated: a component with no refs, zero onMount hooks, zero onUpdate
\* hooks and no interactive-event binding in its children forest is analysed as
\* needing no hydration.
C1_ZeroHooksNoHydration ==
    (/\ Analyzed
     /\ NoRefsMountsEvents
     /\ (json[1].hooks.onUpdate = Undefined \/ json[1].hooks.onUpdate[1] = <<>>))
    => ~hydrationAnalysis[1].needsHydration

\* C1 amended: a component with no refs, zero onMount hooks, no onUpdate list
\* declared at all and no interactive-event binding in its children forest is
\* analysed as needing no hydration.
C1_NoHydration ==
    (Analyzed /\ NoRefsMountsEvents /\ json[1].hooks.onUpdate = Undefined)
    => ~hydrationAnalysis[1].needsHydration

C1_Witness ==
    /\ Analyzed /\ NoRefsMountsEvents /\ json[1].hooks.onUpdate = Undefined
    /\ \E i \in DOMAIN json[1].children :
          \E k \in DOMAIN json[1].children[i].bindings :
             checkIsEvent(json[1].children[i].bindings[k].key)
    /\ ~hydrationAnalysis[1].needsHydration
    /\ hydrationAnalysis[1].reason = <<>>

\* C2: a component with at least one onMount hook is given the eager strategy
\* client:load, whatever refs, onUpdate hooks and interactive events it has.
C2_MountForcesLoad ==
    (Analyzed /\ Len(json[1].hooks.onMount) >= 1)
    => hydrationAnalysis[1].suggestedDirective = CLIENT_DIRECTIVES.load

C2_Witness ==
    /\ Analyzed
    /\ Len(json[1].hooks.onMount) >= 1
    /\ interactiveAnywhere(json[1].children)
    /\ getRefs(json[1]) = <<>>
    /\ hydrationAnalysis[1].suggestedDirective = CLIENT_DIRECTIVES.load

\* C3 as stated: processBinding is idempotent per context: a second call on
\* the result of the first, in the same context, returns that result.
C3_Idempotent == Len(passes) >= 2 => passes[2] = passes[1]

\* C7: processBinding never throws, and when the rewrite inside it fails it
\* returns the text exactly as it was given, not the partly substituted text.
C7_FailSoft ==
    /\ ~aborted
    /\ \A i \in DOMAIN passes :
          tryRewrite(passInput(i), context).threw => passes[i] = passInput(i)

C7_Witness ==
    /\ passes # <<>>
    /\ tryRewrite(code, context).threw
    /\ substituteRefs(code, context) # code
    /\ passes[1] = code

\* the node takes the plain-element branch of blockToAstro
isPlainElement(n) ==
    /\ ~hasLiteralText(n) /\ ~BindingHasCode(n, "_text")
    /\ n.name \notin {"Fragment", "For", "Show"}

\* C4: a plain element whose name is a self-closing tag renders to text that
\* ends with " />" and holds no closing of the opening tag, no closing tag and
\* no rendering of a child, even with children or an innerHTML binding.
C4_SelfClosing ==
    (markup # Undefined /\ isPlainElement(node) /\ node.name \in SELF_CLOSING_HTML_TAGS)
    => LET t == markup[1]
       IN  /\ t[Len(t)] = " />"
           /\ \A i \in DOMAIN t : t[i] \notin {">", "</"}
           /\ \A k \in DOMAIN node.children :
                 filterEmptyTextNodes(node.children[k])
                 => ~ContainsSeq(t, blockToAstro(node.children[k], roptions))

C4_Witness ==
    /\ markup # Undefined /\ isPlainElement(node) /\ node.name \in SELF_CLOSING_HTML_TAGS
    /\ BindingHasCode(node, "innerHTML")
    /\ \E k \in DOMAIN node.children : filterEmptyTextNodes(node.children[k])
    /\ markup[1][Len(markup[1])] = " />"

\* the forms of the class attribute
isDirectForm(t) == Len(t) >= 2 /\ t[1] = "class=" /\ t[2] = "\""
expressionForm(entries) ==
    <<"class=", "{[">> \o Join(entries, ", ") \o <<"].filter(Boolean).join(' ')}">>

\* a class source other than the class property is present on the node
secondSourcePresent(n) ==
    \/ Lookup(n.properties, "className") # Undefined
    \/ \E key \in {"class", "className", "css"} : Lookup(n.bindings, key) # Undefined

\* the entries the claim lists, in its order: class property, className
\* property, class binding, className binding, scoped css class
claimedEntries(n) ==
    LET quoted(v) == <<"\"">> \o v \o <<"\"">>
        wrapped(c) == <<"(">> \o processBinding(c, "template") \o <<")">>
        entry(present, e) == IF present THEN <<e>> ELSE <<>>
    IN  entry(PropNonBlank(n, "class"), quoted(Trim(Lookup(n.properties, "class")[1].value)))
        \o entry(PropNonBlank(n, "className"), quoted(Trim(Lookup(n.properties, "className")[1].value)))
        \o entry(BindingNonBlank(n, "class"), wrapped(Lookup(n.bindings, "class")[1].code))
        \o entry(BindingNonBlank(n, "className"), wrapped(Lookup(n.bindings, "className")[1].code))
        \o entry(BindingNonBlank(n, "css"), quoted(<<scopedClassName(n)>>))

\* C5 as stated: the direct form class="<value>" is emitted exactly when the
\* only class source is a non-blank class property; with a second source
\* present the expression form lists all entries in order.
C5_DirectOnlyForClassProperty ==
    classAttr # Undefined
    => /\ isDirectForm(classAttr[1])
          <=> (PropNonBlank(node, "class") /\ ~secondSourcePresent(node))
       /\ (PropNonBlank(node, "class") /\ secondSourcePresent(node))
          => classAttr[1] = expressionForm(claimedEntries(node))

\* C5 amended: the direct form is emitted exactly when exactly one non-blank
\* class source is collected and it is a literal (class property, className
\* property or the scoped class of a css binding); with two or more non-blank
\* sources, or a single class / className binding, the expression form lists
\* the collected entries in order; with none the attribute is empty.
C5_DirectForSingleLiteral ==
    classAttr # Undefined
    => LET entries == claimedEntries(node)
           singleLiteral == /\ Len(entries) = 1
                            /\ ~BindingNonBlank(node, "class")
                            /\ ~BindingNonBlank(node, "className")
       IN  /\ isDirectForm(classAttr[1]) <=> singleLiteral
           /\ singleLiteral => classAttr[1] = <<"class=">> \o entries[1]
           /\ (Len(entries) >= 1 /\ ~singleLiteral)
              => classAttr[1] = expressionForm(entries)
           /\ Len(entries) = 0 => classAttr[1] = <<>>

C5_Witness ==
    /\ classAttr # Undefined
    /\ ~PropNonBlank(node, "class")
    /\ PropNonBlank(node, "className")
    /\ \A key \in {"class", "className", "css"} : Lookup(node.bindings, key) = Undefined
    /\ classAttr[1] = <<"class=", "\"", "b", "\"">>

\* the activation-strategy marker the options configure
configuredMarker(o) ==
    IF o.clientDirective = Undefined THEN CLIENT_DIRECTIVES.idle ELSE o.clientDirective[1]

\* the marker is a token of the opening tag
inOpeningTag(t, m) ==
    \E i \in DOMAIN t : t[i] = m /\ \A k \in 1..(i - 1) : t[k] \notin {">", " />"}

emittedInteractive(b) ==
    b.key \in INTERACTIVE_EVENTS /\ ~IsBlank(b.code) /\ b.type # "spread"

joinedChildren(n, o) ==
    LET kept == SelectSeq(n.children, filterEmptyTextNodes)
    IN  Join([i \in DOMAIN kept |-> blockToAstro(kept[i], o)], "\n")

\* the node takes neither text branch of blockToAstro
notText(n) == ~hasLiteralText(n) /\ ~BindingHasCode(n, "_text")

\* C8: a Show node renders to a ternary interpolation: the processed `when`
\* code, the joined renderings of its non-empty-text children as true branch,
\* and as false branch the rendering of meta.else when there is one and the
\* literal null otherwise.
C8_ShowTernary ==
    (markup # Undefined /\ node.name = "Show" /\ notText(node))
    => markup[1] =
          <<"{">> \o processBinding(BindingCode(node, "when"), "template")
          \o <<" ? (", "\n      ">> \o joinedChildren(node, roptions)
          \o <<"\n    ", ") : (">>
          \o (IF node.meta.else # Undefined
              THEN blockToAstro(node.meta.else[1], roptions) ELSE <<"null">>)
          \o <<")}">>

C8_Witness ==
    /\ node.name = "Show"
    /\ BindingCode(node, "when") = <<"count", " > ", "0">>
    /\ node.children = <<TextYes>>
    /\ node.meta.else = Some(TextNo)
    /\ markup = Some(<<"{", "count", " > ", "0", " ? (", "\n      ", "yes",
                       "\n    ", ") : (", "no", ")}">>)

\* C9: a For node renders to a map call on the processed `each` code whose
\* callback takes the item name alone when there is no index name, item and
\* index when there is one, and whose body is the joined renderings of the
\* non-empty-text children.
C9_ForMap ==
    (markup # Undefined /\ node.name = "For" /\ notText(node))
    => markup[1] =
          <<"{">> \o processBinding(BindingCode(node, "each"), "template")
          \o <<".map((", node.scope.forName[1]>>
          \o (IF node.scope.indexName # Undefined
              THEN <<", ", node.scope.indexName[1]>> ELSE <<>>)
          \o <<") => (", "\n      ">> \o joinedChildren(node, roptions)
          \o <<"\n    ", "))}">>

C9_Witness ==
    /\ node.name = "For"
    /\ BindingCode(node, "each") = <<"items">>
    /\ node.scope.indexName = Undefined
    /\ node.children = <<Li>>
    /\ markup = Some(<<"{", "items", ".map((", "item", ") => (", "\n      ",
                       "<", "li", ">", "{", "item", "}", "</", "li", ">",
                       "\n    ", "))}">>)

\* the stages of a run, in order, for a caller that did or did not supply
\* plugins and did or did not switch formatting off
expectedStages(plugins, formatting) ==
    LET hook(stage) == IF plugins THEN <<stage>> ELSE <<>>
    IN  <<"clone", "mergeOptions">> \o hook("preJson") \o <<"analyze", "collectCss">>
        \o hook("postJson")
        \o <<"stripMeta", "frontmatter", "template", "clientScript", "styles", "concat">>
        \o hook("preCode") \o (IF formatting THEN <<"format">> ELSE <<>>)
        \o hook("postCode") \o <<"return">>

\* C10: the stages of a run occur in the fixed order, each at most once; the
\* four plugin hooks run exactly when the caller supplied a plugin list, the
\* formatting stage exactly when options.prettier is not false.
C10_StageOrder ==
    LET expected == expectedStages(userOptions.plugins # Undefined,
                                   userOptions.prettier # Some(FALSE))
    IN  /\ IsPrefix(stages, expected)
        /\ pc = "done" => stages = expected

C10_Witness ==
    /\ pc = "done"
    /\ userOptions.plugins = Some(<<>>)
    /\ userOptions.prettier = Some(FALSE)
    /\ Len(stages) = 15

\* the scoped classes the rendering of a component records
recordedClasses(c) ==
    classNamesOf(optionsAfterCall(c, [typescript |-> Undefined, clientDirective |-> Undefined,
                                      cssInJs |-> Undefined, prettier |-> Undefined,
                                      plugins |-> Undefined]).cssInJs)

\* C11 as stated: the accumulator is scoped per compilation: a scoped class
\* recorded while rendering one component never appears in the accumulator or
\* in the emitted style block of another compilation of the same generator.
C11_AccumulatorPerCompilation ==
    \A i \in DOMAIN runs : \A k \in DOMAIN runs :
        i # k =>
           \A cls \in recordedClasses(runs[i].component) \ recordedClasses(runs[k].component) :
               /\ cls \notin classNamesOf(runs[k].accumulator)
               /\ \A t \in DOMAIN runs[k].styles : runs[k].styles[t] # cls

\* C12 as stated: a component with no refs, no onMount hooks and at least one
\* interactive-event binding in its children forest is given client:idle,
\* whatever the node names, event names and onUpdate hooks are; with no
\* interactive-event hit, or with at least one ref, it is given client:load.
C12_EventsOnlyIdle ==
    Analyzed =>
       LET noRefs == getRefs(json[1]) = <<>>
           hit == interactiveAnywhere(json[1].children)
           directive == hydrationAnalysis[1].suggestedDirective
       IN  /\ (noRefs /\ json[1].hooks.onMount = <<>> /\ hit)
              => directive = CLIENT_DIRECTIVES.idle
           /\ (~hit \/ ~noRefs) => directive = CLIENT_DIRECTIVES.load

\* the analysis has run and json has not changed its hooks since
AnalysisKnown == hydrationAnalysis # Undefined

\* the reason the onUpdate rule appends
onUpdateReason(j) ==
    <<"Component has ", ToString(Len(j.hooks.onUpdate[1])), " onUpdate hook(s)">>

\* the text holds the token
HasToken(text, token) == \E i \in DOMAIN text : text[i] = token

\* C13: a component whose hooks.onUpdate is declared, even as an empty list, is
\* analysed as needing hydration with an onUpdate reason, and the output of
\* componentToAstro then holds a client script block; when onUpdate is absent
\* the rule adds no reason and the flag is what the other rules give.
C13_DeclaredUpdateHydrates ==
    AnalysisKnown =>
       LET j == json[1]
           analysis == hydrationAnalysis[1]
       IN  IF j.hooks.onUpdate # Undefined
           THEN /\ analysis.needsHydration
                /\ \E i \in DOMAIN analysis.reason : analysis.reason[i] = onUpdateReason(j)
                /\ pc \in {"styles", "concat", "preCode", "format", "postCode", "return", "done"}
                   => HasToken(clientScript, "<script>") /\ HasToken(clientScript, "</script>")
                /\ pc \in {"preCode", "format", "postCode", "return", "done"}
                   => HasToken(output, "<script>") /\ HasToken(output, "</script>")
           ELSE /\ \A i \in DOMAIN analysis.reason :
                      ~HasToken(analysis.reason[i], " onUpdate hook(s)")
                /\ analysis.needsHydration
                   <=> \/ facts[1].refs # <<>>
                       \/ j.hooks.onMount # <<>>
                       \/ interactiveAnywhere(j.children)

C13_Witness ==
    /\ pc = "done"
    /\ json[1].hooks.onUpdate = Some(<<>>)
    /\ json[1].hooks.onMount = <<>>
    /\ facts[1].refs = <<>>
    /\ ~interactiveAnywhere(json[1].children)
    /\ hydrationAnalysis[1].reason = << <<"Component has ", "0", " onUpdate hook(s)">> >>
    /\ HasToken(output, "<script>")

\* the interpolation of the text binding of a node
textInterpolation(n) ==
    <<"{">> \o processBinding(BindingCode(n, "_text"), "template") \o <<"}">>

\* what the shapes below the two text shapes render to
nonTextRendering(n, o, text) ==
    IF n.name = "Fragment" THEN text = joinedChildren(n, o)
    ELSE IF n.name = "For" THEN text = forToAstro(n, o)
    ELSE IF n.name = "Show" THEN text = showToAstro(n, o)
    ELSE Len(text) >= 2 /\ text[1] = "<" /\ text[2] = n.name

\* C14 as stated: blockToAstro dispatches in the order literal text, text
\* binding, Fragment, For, Show, plain element: a node with a non-empty _text
\* property renders exactly that text, and otherwise a node with a _text
\* binding renders exactly the interpolation of its processed code, whatever
\* its name, other bindings and children.
C14_TextShapesFirst ==
    markup # Undefined =>
       IF hasLiteralText(node) THEN markup[1] = PropValue(node, "_text")
       ELSE IF Lookup(node.bindings, "_text") # Undefined
       THEN markup[1] = textInterpolation(node)
       ELSE nonTextRendering(node, roptions, markup[1])

\* C14 amended: as stated, but for a node with a _text binding whose code is
\* not the empty string; a _text binding with the empty string as code is not
\* a text shape, and the node is dispatched on its name.
C14_TextWithCodeFirst ==
    markup # Undefined =>
       IF hasLiteralText(node) THEN markup[1] = PropValue(node, "_text")
       ELSE IF Lookup(node.bindings, "_text") # Undefined /\ BindingCode(node, "_text") # <<>>
       THEN markup[1] = textInterpolation(node)
       ELSE nonTextRendering(node, roptions, markup[1])

C14_Witness ==
    /\ node.name = "Show"
    /\ ~hasLiteralText(node)
    /\ BindingCode(node, "when") = <<"count">>
    /\ Lookup(node.bindings, "_text") # Undefined
    /\ BindingCode(node, "_text") = <<"state", ".", "foo">>
    /\ node.children = <<Li>>
    /\ markup = Some(<<"{", "foo", "}">>)

\* the position of the token that closes the opening tag of a rendered element
openTagEnd(t) == CHOOSE i \in DOMAIN t : t[i] = ">" /\ \A k \in 1..(i - 1) : t[k] # ">"

\* the content of a rendered element: what stands between the opening tag and
\* the closing tag
elementContent(t) == SubSeq(t, openTagEnd(t) + 1, Len(t) - 3)

\* the opening tag of a rendered element
elementOpening(t) == SubSeq(t, 1, openTagEnd(t))

\* a plain element that is not self-closing
isOpenElement(n) == isPlainElement(n) /\ n.name \notin SELF_CLOSING_HTML_TAGS

\* the inner-content interpolation of the innerHTML binding of a node
innerInterpolation(n) ==
    <<"{">> \o processBinding(BindingCode(n, "innerHTML"), "template") \o <<"}">>

\* C15 as stated: a non-self-closing plain element with an innerHTML binding and
\* children has the processed innerHTML code as its content and renders no
\* child; the children are its content exactly when it has no innerHTML
\* binding; the set:html attribute is emitted if and only if the inner-content
\* interpolation is.
C15_InnerHtmlPrecedence ==
    (markup # Undefined /\ isOpenElement(node)) =>
       LET present == Lookup(node.bindings, "innerHTML") # Undefined
           content == elementContent(markup[1])
           interpolated == present /\ content = innerInterpolation(node)
           rendersChild == \E k \in DOMAIN node.children :
                              /\ filterEmptyTextNodes(node.children[k])
                              /\ ContainsSeq(content, blockToAstro(node.children[k], roptions))
       IN  /\ (present /\ node.children # <<>>) => (interpolated /\ ~rendersChild)
           /\ (\E k \in DOMAIN node.children : filterEmptyTextNodes(node.children[k]))
              => (content = joinedChildren(node, roptions) <=> ~present)
           /\ HasToken(elementOpening(markup[1]), " set:html={") <=> interpolated

\* the nodes of a forest, at any depth, that carry a non-blank css binding
RECURSIVE cssNodes(_)
cssNodes(nodes) ==
    IF nodes = <<>> THEN {}
    ELSE (IF BindingNonBlank(nodes[1], "css") THEN {nodes[1]} ELSE {})
         \cup cssNodes(nodes[1].children) \cup cssNodes(nodes[1].meta.else)
         \cup cssNodes(Tail(nodes))

\* the scoped class names that stand in a class attribute of the markup
pushedClasses ==
    {scopedClassName(n) : n \in cssNodes(json[1].children)}
    \cap {template[i] : i \in DOMAIN template}

\* the markup has been rendered
Rendered ==
    pc \in {"clientScript", "styles", "concat", "preCode", "format", "postCode", "return", "done"}

\* the style block has been built
Styled == pc \in {"concat", "preCode", "format", "postCode", "return", "done"}

\* every pushed class has exactly one accumulator entry, with the raw css code
\* of a node of that class
OneEntryPerPushedClass ==
    LET acc == options[1].cssInJs[1]
    IN  \A cls \in pushedClasses :
           /\ Cardinality({i \in DOMAIN acc : acc[i].className = cls}) = 1
           /\ \A i \in DOMAIN acc : acc[i].className = cls =>
                 \E n \in cssNodes(json[1].children) :
                    scopedClassName(n) = cls /\ BindingCode(n, "css") = acc[i].cssCode

\* how many rule blocks of the class the text holds
ruleBlocks(text, cls) ==
    Cardinality({i \in 1..(Len(text) - 2) : SubSeq(text, i, i + 2) = <<".", cls, " {">>})

\* the body the claim gives the rule block of a css code
claimedBody(cssCode) ==
    LET cssObj == evalObject(stripBrackets(cssCode))
    IN  IF cssObj.threw
        THEN <<"  ", "/* Generated from: ">> \o cssCode \o <<" */", "\n">>
        ELSE cssLines(cssObj.entries)

\* the text holds the rule block of the entry with the claimed body
HasRule(text, entry) ==
    ContainsSeq(text, <<".", entry.className, " {", "\n">> \o claimedBody(entry.cssCode) \o <<"}">>)

\* C16 as stated: after the markup is rendered every scoped class pushed into a
\* class attribute has exactly one accumulator entry with the raw css code of
\* the node, and the style block holds exactly one rule block per accumulator
\* entry, with the hyphenated pairs as body when the code parses and a comment
\* with the source text when it does not; the run still returns.
C16_OneRulePerEntry ==
    /\ Rendered => OneEntryPerPushedClass
    /\ Styled =>
          \A i \in DOMAIN options[1].cssInJs[1] :
             LET entry == options[1].cssInJs[1][i]
             IN  ruleBlocks(styles, entry.className) = 1 /\ HasRule(styles, entry)

\* C16 amended: as stated, but the style block holds exactly one rule block per
\* accumulator entry whose css text is not blank (at least one property, or a
\* code that does not parse), and none for an entry whose code parses to an
\* object without properties.
C16_OneRulePerNonEmptyEntry ==
    /\ Rendered => OneEntryPerPushedClass
    /\ Styled =>
          \A i \in DOMAIN options[1].cssInJs[1] :
             LET entry == options[1].cssInJs[1][i]
             IN  IF IsBlank(claimedBody(entry.cssCode))
                 THEN ruleBlocks(styles, entry.className) = 0
                 ELSE ruleBlocks(styles, entry.className) = 1 /\ HasRule(styles, entry)
    /\ pc = "done" =>
          \A i \in DOMAIN options[1].cssInJs[1] :
             LET entry == options[1].cssInJs[1][i]
             IN  ~IsBlank(claimedBody(entry.cssCode)) => HasRule(output, entry)

C16_Witness ==
    /\ pc = "done"
    /\ Cardinality(cssNodes(json[1].children)) = 3
    /\ Len(options[1].cssInJs[1]) = 2
    /\ ContainsSeq(output, <<".", "div-h5fontSize", " {", "\n",
                             "  ", "font-size", ": ", "0", ";", "\n", "}">>)
    /\ ContainsSeq(output, <<".", "input-h5color", " {", "\n",
                             "  ", "color", ": ", "red", ";", "\n", "}">>)

\* a run in which a css code does not parse still returns, with the comment
C16_WitnessFallback ==
    /\ pc = "done"
    /\ ContainsSeq(output, <<".", "my-button-h5color", " {", "\n", "  ",
                             "/* Generated from: ", "{", "color", ":", "red", "}", " */",
                             "\n", "}">>)

\* the frontmatter has been built
FrontmatterBuilt == pc \notin {"idle", "clone", "mergeOptions", "preJson", "analyze",
                               "collectCss", "postJson", "stripMeta", "frontmatter"}

\* where the prop-type declaration starts and where its closing brace stands
declarationStart(f) == CHOOSE i \in DOMAIN f : f[i] = "interface "
declarationEnd(f) ==
    CHOOSE i \in DOMAIN f :
        /\ i > declarationStart(f) /\ f[i] = "}"
        /\ \A k \in (declarationStart(f) + 1)..(i - 1) : f[k] # "}"

\* the field lines of the declaration
declarationBody(f) == SubSeq(f, declarationStart(f) + 4, declarationEnd(f) - 1)
fieldCount(f) ==
    Cardinality({i \in DOMAIN declarationBody(f) : declarationBody(f)[i] = "\n"})

\* what follows the declaration: the typed binding of Astro.props
typedBindingFollows(f) ==
    /\ declarationEnd(f) + 2 <= Len(f)
    /\ f[declarationEnd(f) + 1] = "\n\n"
    /\ f[declarationEnd(f) + 2] = "const props = Astro.props as "

\* the props section of the frontmatter, with the field of a prop given by
\* field(prop)
propsSectionAs(field(_)) ==
    LET f == frontmatter
        j == json[1]
    IN  IF options[1].typescript /\ facts[1].componentHasProps
        THEN /\ HasToken(f, "interface ")
             /\ ~HasToken(f, "const props = Astro.props;")
             /\ IF j.props # <<>>
                THEN /\ fieldCount(f) = Len(j.props)
                     /\ \A i \in DOMAIN j.props : ContainsSeq(declarationBody(f), field(j.props[i]))
                     /\ ~HasToken(f, "[key: string]: any;")
                ELSE declarationBody(f) = <<"  ", "[key: string]: any;", "\n">>
             /\ typedBindingFollows(f)
        ELSE IF facts[1].componentHasProps
        THEN /\ HasToken(f, "const props = Astro.props;")
             /\ ~HasToken(f, "interface ")
             /\ ~HasToken(f, "const props = Astro.props as ")
        ELSE /\ ~HasToken(f, "const props = Astro.props;")
             /\ ~HasToken(f, "interface ")
             /\ ~HasToken(f, "const props = Astro.props as ")

optionalField(prop) == <<"  ", prop.key, "?", ": ">>
declaredField(prop) ==
    <<"  ", prop.key>> \o (IF prop.optional = Some(FALSE) THEN <<>> ELSE <<"?">>) \o <<": ">>

\* C17 as stated: in typed mode with effective props the frontmatter holds a
\* prop-type declaration with exactly one field per declared prop, every field
\* marked optional, or the open-ended record field when no prop is declared,
\* followed by the typed binding of Astro.props; in untyped mode with
\* effective props it holds the untyped binding and no declaration; without
\* effective props it holds neither.
C17_EveryFieldOptional == FrontmatterBuilt => propsSectionAs(optionalField)

\* C17 amended: as stated, but a field is marked optional unless the prop is
\* declared with optional: false, in which case it is a required field.
C17_FieldOptionalUnlessDeclaredRequired == FrontmatterBuilt => propsSectionAs(declaredField)

C17_Witness ==
    /\ FrontmatterBuilt
    /\ options[1].typescript /\ facts[1].componentHasProps
    /\ Len(json[1].props) = 2
    /\ ContainsSeq(frontmatter, <<"interface ", "ButtonProps", " {", "\n",
                                  "  ", "foo", "?", ": ", "string", ";", "\n",
                                  "  ", "bar", ": ", "any", ";", "\n",
                                  "}", "\n\n", "const props = Astro.props as ", "ButtonProps", ";">>)

\* the markup holds an element whose opening tag carries an interactive event
\* handler and, behind it, the activation-strategy marker
markedByEvent(t, marker) ==
    \E i \in DOMAIN t : \E k \in DOMAIN t :
        /\ i < k /\ i > 1 /\ i < Len(t)
        /\ t[i - 1] = " " /\ t[i] \in INTERACTIVE_EVENTS /\ t[i + 1] = "={"
        /\ t[k] = marker
        /\ \A m \in i..k : t[m] \notin {">", " />"}

\* C18 as stated: in a compilation without plugins, when the markup holds an
\* activation-strategy marker that an interactive-event binding caused, also on
\* an element reached only through the else branch of a Show node, the
\* analysis said needsHydration and the output holds a client script block;
\* and needsHydration is true exactly when the reason list is not empty.
C18_AnalyzerRendererAgree ==
    /\ (Rendered /\ userOptions.plugins = Undefined
        /\ markedByEvent(template, configuredMarker(options[1])))
       => /\ hydrationAnalysis[1].needsHydration
          /\ pc = "done" => HasToken(output, "<script>")
    /\ AnalysisKnown
       => (hydrationAnalysis[1].needsHydration <=> hydrationAnalysis[1].reason # <<>>)

====
